---------------------------- MODULE Spec2Model ----------------------------
(***************************************************************************)
(* Model of the Si4703 FM receiver driver (src/si4703.go): the 16-word     *)
(* register bank held by the driver, the two bus transactions (read-all    *)
(* and write-range), the public control operations built on them, the      *)
(* Tune/Seek polling state machine and the RDS poll loop.                  *)
(*                                                                         *)
(* Program counters are source line numbers of si4703.go: pc[t].at is the  *)
(* line the flow t is about to execute inside the public function          *)
(* pc[t].op, and in[t] says how far a readRegisters/updateRegisters call   *)
(* made from that line has got.                                            *)
(***************************************************************************)
EXTENDS Integers, Sequences, FiniteSets, TLC

(***************************************************************************)
(* Register names (src/si4703.go:30-47) and bit positions (49-77).         *)
(***************************************************************************)
POWERCFG == 2
CHANNEL == 3
SYSCONFIG1 == 4
SYSCONFIG2 == 5
UNUSED7 == 7
STATUSRSSI == 10
READCHAN == 11
RDSA == 12
RDSB == 13
RDSC == 14
RDSD == 15

SMUTE == 15
DMUTE == 14
SEEKUP == 9
SEEK == 8
TUNE == 15
RDS == 12
RDSR == 15
STC == 14
SFBL == 13

(***************************************************************************)
(* uint16 arithmetic and the Go bit operators |, &, &^ and <<.             *)
(***************************************************************************)
Word == 65536

U16(n) == n % Word

Shl(n) == 2 ^ n

Bit(w, n) == (w \div (2 ^ n)) % 2

RECURSIVE OrN(_, _, _)
OrN(a, b, n) ==
    IF n = 0 THEN 0
    ELSE (IF a % 2 = 1 \/ b % 2 = 1 THEN 1 ELSE 0) + 2 * OrN(a \div 2, b \div 2, n - 1)

RECURSIVE AndN(_, _, _)
AndN(a, b, n) ==
    IF n = 0 THEN 0
    ELSE (IF a % 2 = 1 /\ b % 2 = 1 THEN 1 ELSE 0) + 2 * AndN(a \div 2, b \div 2, n - 1)

Or16(a, b) == OrN(a, b, 16)

And16(a, b) == AndN(a, b, 16)

AndNot16(a, b) == AndN(a, (Word - 1) - b, 16)

(***************************************************************************)
(* encoding/binary, BigEndian, for one uint16.                             *)
(***************************************************************************)
BigEndianWrite(w) == <<w \div 256, w % 256>>

BigEndianRead(hi, lo) == hi * 256 + lo

(***************************************************************************)
(* The device behind the bus.  The chip takes the bytes written in a       *)
(* transaction as register 0x02 upwards, high byte first (the comment at   *)
(* src/si4703.go:168-173), and answers a read with its registers starting  *)
(* at 0x0A and wrapping from 0x0F to 0x00 (the loop at 187-202).           *)
(***************************************************************************)
Regs == 0 .. 15

DeviceWrite(d, w) ==
    [r \in Regs |->
        IF r >= POWERCFG /\ 2 * (r - POWERCFG) + 2 <= Len(w)
        THEN BigEndianRead(w[2 * (r - POWERCFG) + 1], w[2 * (r - POWERCFG) + 2])
        ELSE d[r]]

DeviceRead(d, n) ==
    [k \in 1 .. n |->
        LET r == (STATUSRSSI + ((k - 1) \div 2)) % 16
        IN  IF k % 2 = 1 THEN d[r] \div 256 ELSE d[r] % 256]

\* make([]byte, n): the zeroed buffer a failed transaction leaves behind
ZeroBytes(n) == [k \in 1 .. n |-> 0]

\* d.bus.Tx(addr, w, r): write w, then read Len(r) bytes.  A transaction
\* fails with the write not taken ("nak") or taken ("late").
TxOutcomes == {"ok", "nak", "late"}

BusTx(d, w, n, outcome) ==
    LET d2 == IF outcome = "nak" THEN d ELSE DeviceWrite(d, w)
    IN  [dev  |-> d2,
         err  |-> outcome # "ok",
         data |-> IF outcome = "ok" THEN DeviceRead(d2, n) ELSE ZeroBytes(n)]

(***************************************************************************)
(* readRegisters, lines 187-202: the loop that stores the 32 bytes read    *)
(* into d.registers, x running from 0x0A, wrapping at 0x10, until 0x09.    *)
(***************************************************************************)
RECURSIVE readLoop(_, _, _, _)
readLoop(regs, data, x0, counter) ==
    LET x == IF x0 = 16 THEN 0 ELSE x0
        stored == [regs EXCEPT ![x] = BigEndianRead(data[counter + 1], data[counter + 2])]
    IN  IF x = 9 THEN stored ELSE readLoop(stored, data, x + 1, counter + 2)

readStart == 10

\* variant: the store loop starting at index 0 instead of 0x0A
readIntoFromZero(regs, data) == readLoop(regs, data, 0, 0)

readInto(regs, data) == readLoop(regs, data, readStart, 0)

\* variant: the store loop run even after a failed transaction
readIgnoresError(e) == FALSE

\* readRegisters, lines 181-183: a failed transaction returns at once
readReturnsOnError(e) == e

(***************************************************************************)
(* updateRegisters, lines 208-213: registers 0x02..0x07, each BigEndian.   *)
(***************************************************************************)
RECURSIVE updateBytes(_, _)
updateBytes(regs, x) ==
    IF x < 8 THEN BigEndianWrite(regs[x]) \o updateBytes(regs, x + 1) ELSE <<>>

\* variant: the payload starting at register 0x03
updatePayloadFromChannel(regs) == updateBytes(regs, CHANNEL)

updatePayload(regs) == updateBytes(regs, POWERCFG)

(***************************************************************************)
(* The register modifications of the public operations.                    *)
(***************************************************************************)
\* Configure, line 115
enableOscillator(regs) == [regs EXCEPT ![UNUSED7] = 33024]

\* Configure, lines 125-128
enableIC(regs) ==
    [regs EXCEPT ![POWERCFG] = 1,
                 ![SYSCONFIG1] = Or16(regs[SYSCONFIG1], Shl(RDS)),
                 ![SYSCONFIG2] = Or16(And16(regs[SYSCONFIG2], 65520), 1)]

\* DisableSoftMute, line 150
disableSoftMute(regs) == [regs EXCEPT ![POWERCFG] = Or16(regs[POWERCFG], Shl(SMUTE))]

\* DisableMute, line 156
disableMute(regs) == [regs EXCEPT ![POWERCFG] = Or16(regs[POWERCFG], Shl(DMUTE))]

\* variant: the mask 0x3FFF, clearing bit 15 as well
enableMuteClearsBoth(regs) == [regs EXCEPT ![POWERCFG] = And16(regs[POWERCFG], 16383)]

\* EnableMute, line 162
enableMute(regs) == [regs EXCEPT ![POWERCFG] = And16(regs[POWERCFG], 49151)]

\* variant: the argument used as given
unclampedVolume(volume) == volume

\* SetVolume, lines 226-231
clampVolume(volume) ==
    LET v1 == IF volume < 0 THEN 0 ELSE volume
    IN  IF v1 > 15 THEN 15 ELSE v1

\* SetVolume, lines 226-233
setVolume(regs, volume) ==
    [regs EXCEPT ![SYSCONFIG2] = Or16(And16(regs[SYSCONFIG2], 65520), clampVolume(volume))]

\* variant: the channel spacing taken as 100 kHz
newChannelSpacing10(channel) == U16(U16(channel * 10) - 8750) \div 10

\* SetChannel, lines 238-240 (uint16 arithmetic)
newChannel(channel) == U16(U16(channel * 10) - 8750) \div 20

\* SetChannel, lines 243-245
setTune(regs, channel) ==
    [regs EXCEPT ![CHANNEL] =
        Or16(Or16(And16(regs[CHANNEL], 65024), newChannel(channel)), Shl(TUNE))]

\* SetChannel, line 263
clearTune(regs) == [regs EXCEPT ![CHANNEL] = AndNot16(regs[CHANNEL], Shl(TUNE))]

\* Seek, lines 280-287
setSeek(regs, dir) ==
    LET p == IF dir = 1 THEN Or16(regs[POWERCFG], Shl(SEEKUP))
                        ELSE AndNot16(regs[POWERCFG], Shl(SEEKUP))
    IN  [regs EXCEPT ![POWERCFG] = Or16(p, Shl(SEEK))]

\* variant: the SEEK bit left set
seekBitKept(regs) == regs

\* Seek, line 306
clearSeek(regs) == [regs EXCEPT ![POWERCFG] = AndNot16(regs[POWERCFG], Shl(SEEK))]

\* variant: line 523, the formula of band 1 (76 MHz base)
printChannelNumberBand1(channel) ==
    LET freq == channel * 20 + 7600
    IN  <<freq \div 100, freq % 100, "MHz">>

\* printChannelNumber, lines 514-523, band 0: the frequency in MHz printed
\* with two decimals, as <<whole part, hundredths, unit>>
printChannelNumber(channel) ==
    LET freq == channel * 20 + 8750
    IN  <<freq \div 100, freq % 100, "MHz">>

\* printChannel, line 508: the channel code of a CHANNEL or READCHAN word
channelCode(tune) == And16(tune, 511)

\* the loop conditions at lines 253, 296 (flag set) and 269, 311 (flag clear)
stcSet(regs) == And16(regs[STATUSRSSI], Shl(STC)) # 0

\* PollRDS, line 670: byte(d.registers[STATUSRSSI] >> RDSR) == 1
rdsReady(regs) == (regs[STATUSRSSI] \div Shl(RDSR)) % 256 = 1

(***************************************************************************)
(* State.                                                                  *)
(***************************************************************************)
VARIABLES
    calls,      \* how many public operations the caller has invoked
    ticks,      \* how many times the poll loop's timer has fired
    registers,  \* d.registers: the driver's register bank
    rdsinfo,    \* d.rdsinfo: the RDS decoder context
    dev,        \* the registers the chip holds
    pc,         \* per flow: the public function, its argument, the line
    in,         \* per flow: progress of the bus call made at pc[t].at
    rx,         \* per flow: readRegisters' local data buffer
    err,        \* per flow: the err of the flow's latest bus transaction
    lastTx,     \* the latest bus transaction: who, which call, bytes written
    opLog       \* what the control operation in progress has done so far

vars == <<calls, ticks, registers, rdsinfo, dev, pc, in, rx, err, lastTx, opLog>>

Flows == {"ctl", "rds"}

\* the two flows of the program: the control path and `go d.PollRDS()`
Idle == [op |-> "idle", at |-> 0, arg |-> 0]

\* rds.NewRDSInfo(): a decoder context that has accumulated nothing
NewRDSInfo == [nil |-> FALSE, groups |-> 0, last |-> <<>>]

\* the nil *rds.RDSInfo of a Device that New() has just built
NilRDSInfo == [nil |-> TRUE, groups |-> 0, last |-> <<>>]

\* rdsinfo.Update(a, b, c, d): the context accumulates one more group
Update(info, g) == [nil |-> FALSE, groups |-> info.groups + 1, last |-> g]

\* New(), lines 87-94: a zeroed bank, no decoder yet
New ==
    /\ registers = [r \in Regs |-> 0]
    /\ rdsinfo = NilRDSInfo

\* the chip's registers when the driver is constructed: TUNE, SEEK and the
\* completion flag clear
DeviceImages ==
    { [r \in Regs |->
         CASE r = 0 -> 4674
           [] r = 1 -> 2639
           [] r = SYSCONFIG2 -> s2
           [] r = CHANNEL -> ch
           [] r = UNUSED7 -> 256
           [] r = 8 -> 2057
           [] r = 9 -> 2314
           [] r = STATUSRSSI -> 291
           [] r = READCHAN -> 68
           [] OTHER -> 0] : <<s2, ch>> \in {<<0, 0>>, <<3098, 1024>>} }

NoTx == [by |-> "none", call |-> "none", w |-> <<>>]

Init ==
    /\ New
    /\ calls = 0
    /\ ticks = 0
    /\ dev \in DeviceImages
    /\ pc = [t \in Flows |-> [op |-> "New", at |-> 0, arg |-> 0]]
    /\ in = [t \in Flows |-> "none"]
    /\ rx = [t \in Flows |-> <<>>]
    /\ err = [t \in Flows |-> FALSE]
    /\ lastTx = NoTx
    /\ opLog = <<>>

(***************************************************************************)
(* Control flow: the lines of the public functions.                        *)
(***************************************************************************)
\* the lines that call d.readRegisters()
ReadSites == {113, 123, 149, 155, 161, 225, 242, 252, 268, 279, 295, 310, 669}

\* the reads of the four polling loops of SetChannel and Seek
PollSites == {252, 268, 295, 310}

\* the lines that call d.updateRegisters()
UpdateSites == {117, 130, 151, 157, 163, 234, 248, 264, 291}

\* the closing lines of the public functions
ReturnSites == {135, 152, 158, 164, 235, 275, 316}

\* the statement that follows the one at a line, in straight-line code
Succ(at) ==
    CASE at = 97 -> 113  [] at = 113 -> 115 [] at = 115 -> 117 [] at = 117 -> 123
      [] at = 123 -> 125 [] at = 125 -> 130 [] at = 130 -> 135
      [] at = 149 -> 150 [] at = 150 -> 151 [] at = 151 -> 152
      [] at = 155 -> 156 [] at = 156 -> 157 [] at = 157 -> 158
      [] at = 161 -> 162 [] at = 162 -> 163 [] at = 163 -> 164
      [] at = 225 -> 226 [] at = 226 -> 234 [] at = 234 -> 235
      [] at = 242 -> 243 [] at = 243 -> 248 [] at = 248 -> 252
      [] at = 252 -> 253 [] at = 260 -> 263 [] at = 263 -> 264
      [] at = 264 -> 268 [] at = 268 -> 269
      [] at = 279 -> 280 [] at = 280 -> 291 [] at = 291 -> 295
      [] at = 295 -> 296 [] at = 303 -> 306 [] at = 306 -> 310
      [] at = 310 -> 311
      [] at = 669 -> 670
      [] OTHER -> 0

Goto(t, line) == pc' = [pc EXCEPT ![t].at = line]

At(t, op, line) == pc[t].op = op /\ pc[t].at = line /\ in[t] = "none"

(***************************************************************************)
(* The log of the control operation in progress.  The reads of a polling   *)
(* loop are logged once per loop and result ("poll", "pollfail"); every    *)
(* other event is logged each time it happens.                             *)
(***************************************************************************)
PollEvents == {"poll", "pollfail"}

Logged(log, e) ==
    IF e \in PollEvents
    THEN IF \/ (Len(log) >= 1 /\ log[Len(log)] = e)
            \/ (Len(log) >= 2 /\ log[Len(log)] \in PollEvents /\ log[Len(log) - 1] = e)
         THEN log
         ELSE Append(log, e)
    ELSE Append(log, e)

Log(t, e) == opLog' = IF t = "ctl" THEN Logged(opLog, e) ELSE opLog

ReadEvent(at, failed) ==
    IF at \in PollSites THEN (IF failed THEN "pollfail" ELSE "poll")
    ELSE (IF failed THEN "rdfail" ELSE "rd")

(***************************************************************************)
(* readRegisters, lines 166-205, in two steps: the bus transaction (175-183)*)
(* and the store of the bytes read into the bank (187-202).                *)
(***************************************************************************)
readRegistersTx(t, outcome) ==
    /\ pc[t].at \in ReadSites
    /\ in[t] = "none"
    /\ LET bufbytes == BigEndianWrite(registers[POWERCFG])
           tx == BusTx(dev, bufbytes, 32, outcome)
       IN  /\ dev' = tx.dev
           /\ err' = [err EXCEPT ![t] = tx.err]
           /\ lastTx' = [by |-> t, call |-> "readRegisters", w |-> bufbytes]
           /\ Log(t, ReadEvent(pc[t].at, tx.err))
           /\ IF readReturnsOnError(tx.err)
              THEN /\ Goto(t, Succ(pc[t].at))
                   /\ UNCHANGED <<in, rx>>
              ELSE /\ in' = [in EXCEPT ![t] = "store"]
                   /\ rx' = [rx EXCEPT ![t] = tx.data]
                   /\ UNCHANGED pc
    /\ UNCHANGED <<calls, ticks, registers, rdsinfo>>

readRegistersStore(t) ==
    /\ in[t] = "store"
    /\ registers' = readInto(registers, rx[t])
    /\ in' = [in EXCEPT ![t] = "none"]
    /\ rx' = [rx EXCEPT ![t] = <<>>]
    /\ Goto(t, Succ(pc[t].at))
    /\ UNCHANGED <<calls, ticks, rdsinfo, dev, err, lastTx, opLog>>

(***************************************************************************)
(* updateRegisters, lines 207-222: one transaction writing the payload.    *)
(* The 11 bytes read back land in the local buffer and are dropped; the    *)
(* error is logged (217-219) and not returned.                             *)
(***************************************************************************)
updateRegisters(t, outcome) ==
    /\ pc[t].at \in UpdateSites
    /\ in[t] = "none"
    /\ LET bytes == updatePayload(registers)
           tx == BusTx(dev, bytes, 11, outcome)
       IN  /\ dev' = tx.dev
           /\ err' = [err EXCEPT ![t] = tx.err]
           /\ lastTx' = [by |-> t, call |-> "updateRegisters", w |-> bytes]
           /\ Log(t, IF tx.err THEN "wrfail" ELSE "wr")
    /\ Goto(t, Succ(pc[t].at))
    /\ UNCHANGED <<calls, ticks, registers, rdsinfo, in, rx>>

(***************************************************************************)
(* The public operations of the control path.                              *)
(***************************************************************************)
\* a step of the operation's own code that only rewrites the bank
Modify(t, op, line, regs) ==
    /\ At(t, op, line)
    /\ registers' = regs
    /\ Goto(t, Succ(line))
    /\ UNCHANGED <<calls, ticks, rdsinfo, dev, in, rx, err, lastTx, opLog>>

\* the number of public operations called after Configure
MaxCalls == 2

\* the caller invokes a public operation
Call(op, line, arg) ==
    /\ pc["ctl"].op = "idle"
    /\ calls < MaxCalls
    /\ calls' = calls + 1
    /\ pc' = [pc EXCEPT !["ctl"] = [op |-> op, at |-> line, arg |-> arg]]
    /\ opLog' = <<>>
    /\ UNCHANGED <<ticks, registers, rdsinfo, dev, in, rx, err, lastTx>>

\* Configure, line 97, called once after New
Configure97 ==
    /\ pc["ctl"].op = "New"
    /\ pc' = [pc EXCEPT !["ctl"] = [op |-> "Configure", at |-> 113, arg |-> 0]]
    /\ rdsinfo' = NewRDSInfo
    /\ opLog' = <<>>
    /\ UNCHANGED <<calls, ticks, registers, dev, in, rx, err, lastTx>>

Configure115 == Modify("ctl", "Configure", 115, enableOscillator(registers))

Configure125 == Modify("ctl", "Configure", 125, enableIC(registers))

DisableSoftMute == Modify("ctl", "DisableSoftMute", 150, disableSoftMute(registers))

DisableMute == Modify("ctl", "DisableMute", 156, disableMute(registers))

EnableMute == Modify("ctl", "EnableMute", 162, enableMute(registers))

SetVolume == Modify("ctl", "SetVolume", 226, setVolume(registers, pc["ctl"].arg))

SetChannel243 == Modify("ctl", "SetChannel", 243, setTune(registers, pc["ctl"].arg))

SetChannel263 == Modify("ctl", "SetChannel", 263, clearTune(registers))

Seek280 == Modify("ctl", "Seek", 280, setSeek(registers, pc["ctl"].arg))

Seek306 == Modify("ctl", "Seek", 306, clearSeek(registers))

\* the loop exits at lines 253/296 (break when the flag is set) and 269/311
\* (break when it is clear); otherwise the loop reads again
WaitSTC(op, line, wanted, back, out, event) ==
    /\ At("ctl", op, line)
    /\ IF stcSet(registers) = wanted
       THEN Goto("ctl", out) /\ Log("ctl", event)
       ELSE Goto("ctl", back) /\ UNCHANGED opLog
    /\ UNCHANGED <<calls, ticks, registers, rdsinfo, dev, in, rx, err, lastTx>>

\* variant: SetChannel returning as soon as the flag is seen set
SetChannel253ReturnsEarly == WaitSTC("SetChannel", 253, TRUE, 252, 275, "set")

\* variant: the loop exit jumping past line 260
SetChannel253SkipsReset == WaitSTC("SetChannel", 253, TRUE, 252, 263, "set")

SetChannel253 == WaitSTC("SetChannel", 253, TRUE, 252, 260, "set")

SetChannel269 == WaitSTC("SetChannel", 269, FALSE, 268, 275, "clear")

\* variant: Seek returning at once when the chip reports the band limit
Seek296StopsAtBandLimit ==
    WaitSTC("Seek", 296, TRUE, 295,
            IF Bit(registers[STATUSRSSI], SFBL) = 1 THEN 316 ELSE 303, "set")

\* variant: the first loop of Seek left after one read, flag set or not
Seek296GivesUp == WaitSTC("Seek", 296, stcSet(registers), 295, 303, "timeout")

Seek296 == WaitSTC("Seek", 296, TRUE, 295, 303, "set")

Seek311 == WaitSTC("Seek", 311, FALSE, 310, 316, "clear")

\* lines 260 and 303: d.rdsinfo = rds.NewRDSInfo()
ResetRDS(op, line) ==
    /\ At("ctl", op, line)
    /\ rdsinfo' = NewRDSInfo
    /\ Goto("ctl", Succ(line))
    /\ Log("ctl", "reset")
    /\ UNCHANGED <<calls, ticks, registers, dev, in, rx, err, lastTx>>

SetChannel260 == ResetRDS("SetChannel", 260)

Seek303 == ResetRDS("Seek", 303)

\* what a public function hands back to its caller: Configure returns its
\* err, which nothing ever sets; the others have no result parameter
Outcome(op) == IF op = "Configure" THEN "nil" ELSE "nothing"

\* the public functions return: the caller gets Outcome and nothing else
Return ==
    /\ pc["ctl"].at \in ReturnSites
    /\ pc' = [pc EXCEPT !["ctl"] = Idle]
    /\ err' = [err EXCEPT !["ctl"] = FALSE]
    /\ lastTx' = NoTx
    /\ opLog' = <<>>
    /\ UNCHANGED <<calls, ticks, registers, rdsinfo, dev, in, rx>>

(***************************************************************************)
(* PollRDS, lines 665-689, started as a background flow once the device    *)
(* is configured.                                                          *)
(***************************************************************************)
PollRDSStart ==
    /\ pc["rds"].op = "New"
    /\ pc["ctl"].op = "idle"
    /\ pc' = [pc EXCEPT !["rds"] = [op |-> "PollRDS", at |-> 668, arg |-> 0]]
    /\ UNCHANGED <<calls, ticks, registers, rdsinfo, dev, in, rx, err, lastTx, opLog>>

\* the number of timer ticks of the poll loop that are followed
MaxTicks == 2

\* line 668: the 40 ms timer fires
PollRDS668 ==
    /\ At("rds", "PollRDS", 668)
    /\ ticks < MaxTicks
    /\ ticks' = ticks + 1
    /\ Goto("rds", 669)
    /\ UNCHANGED <<calls, registers, rdsinfo, dev, in, rx, err, lastTx, opLog>>

\* lines 670-686
PollRDS670 ==
    /\ At("rds", "PollRDS", 670)
    /\ rdsinfo' = IF rdsReady(registers)
                  THEN Update(rdsinfo, <<registers[RDSA], registers[RDSB],
                                         registers[RDSC], registers[RDSD]>>)
                  ELSE rdsinfo
    /\ Goto("rds", 668)
    /\ UNCHANGED <<calls, ticks, registers, dev, in, rx, err, lastTx, opLog>>

(***************************************************************************)
(* The chip's own activity.  It raises the completion flag some time after *)
(* TUNE or SEEK was written set and drops it some time after both are      *)
(* clear (what the loops at 250-257 and 266-273 wait for); a seek may end  *)
(* at the band limit; with RDS enabled it delivers groups.                 *)
(***************************************************************************)
Busy(d) == Bit(d[CHANNEL], TUNE) = 1 \/ Bit(d[POWERCFG], SEEK) = 1

DevSTC(d) == Bit(d[STATUSRSSI], STC) = 1

DeviceComplete(sfbl) ==
    /\ Busy(dev)
    /\ ~DevSTC(dev)
    /\ dev' = [dev EXCEPT ![STATUSRSSI] =
                 @ + Shl(STC) + (IF sfbl /\ Bit(dev[POWERCFG], SEEK) = 1 /\ Bit(@, SFBL) = 0
                                 THEN Shl(SFBL) ELSE 0)]
    /\ UNCHANGED <<calls, ticks, registers, rdsinfo, pc, in, rx, err, lastTx, opLog>>

DeviceClear ==
    /\ ~Busy(dev)
    /\ DevSTC(dev)
    /\ dev' = [dev EXCEPT ![STATUSRSSI] = @ - Shl(STC) - Bit(@, SFBL) * Shl(SFBL)]
    /\ UNCHANGED <<calls, ticks, registers, rdsinfo, pc, in, rx, err, lastTx, opLog>>

\* the groups of the broadcast, received in the order of their RDSB word
RDSGroups == {<<21672, 1032, 8247, 16706>>, <<21672, 1033, 8247, 17220>>}

DeviceRDSGroup(g) ==
    /\ Bit(dev[SYSCONFIG1], RDS) = 1
    /\ Bit(dev[STATUSRSSI], RDSR) = 0
    /\ g[2] > dev[RDSB]
    /\ dev' = [dev EXCEPT ![STATUSRSSI] = @ + Shl(RDSR),
                          ![RDSA] = g[1], ![RDSB] = g[2], ![RDSC] = g[3], ![RDSD] = g[4]]
    /\ UNCHANGED <<calls, ticks, registers, rdsinfo, pc, in, rx, err, lastTx, opLog>>

DeviceRDSClear ==
    /\ Bit(dev[STATUSRSSI], RDSR) = 1
    /\ dev' = [dev EXCEPT ![STATUSRSSI] = @ - Shl(RDSR)]
    /\ UNCHANGED <<calls, ticks, registers, rdsinfo, pc, in, rx, err, lastTx, opLog>>

(***************************************************************************)
(* Specifications.                                                         *)
(***************************************************************************)
\* arguments the caller passes
Directions == {0, 1}

CallMute ==
    \/ Call("DisableSoftMute", 149, 0)
    \/ Call("DisableMute", 155, 0)
    \/ Call("EnableMute", 161, 0)

CallVolume(volumes) == \E v \in volumes : Call("SetVolume", 225, v)

CallTune(channels, directions) ==
    \/ \E c \in channels : Call("SetChannel", 242, c)
    \/ \E d \in directions : Call("Seek", 279, d)

StepsConfigure == Configure97 \/ Configure115 \/ Configure125

StepsMute == DisableSoftMute \/ DisableMute \/ EnableMute

StepsSetChannel ==
    SetChannel243 \/ SetChannel253 \/ SetChannel260 \/ SetChannel263 \/ SetChannel269

StepsSeek == Seek280 \/ Seek296 \/ Seek303 \/ Seek306 \/ Seek311

DeviceTune ==
    \/ \E sfbl \in BOOLEAN : DeviceComplete(sfbl)
    \/ DeviceClear

DeviceRDS ==
    \/ \E g \in RDSGroups : DeviceRDSGroup(g)
    \/ DeviceRDSClear

Bus(t, outcomes) ==
    \/ \E o \in outcomes : readRegistersTx(t, o)
    \/ readRegistersStore(t)
    \/ \E o \in outcomes : updateRegisters(t, o)

PollRDS(outcomes) ==
    \/ PollRDSStart
    \/ PollRDS668
    \/ PollRDS670
    \/ \E o \in outcomes : readRegistersTx("rds", o)
    \/ readRegistersStore("rds")

\* the control path alone, over a bus that can fail
NextSeq ==
    \/ CallMute
    \/ CallVolume({16})
    \/ CallTune({1011}, Directions)
    \/ StepsConfigure \/ StepsMute \/ SetVolume \/ StepsSetChannel \/ StepsSeek \/ Return
    \/ Bus("ctl", TxOutcomes)
    \/ DeviceTune

SeqSpec == Init /\ [][NextSeq]_vars

\* the number of public operations called while the poll loop runs
MaxPollCalls == 1

\* the control path and the RDS poll loop
Next ==
    \/ calls < MaxPollCalls /\ CallVolume({16})
    \/ calls < MaxPollCalls /\ CallTune({1011}, {})
    \/ StepsConfigure \/ SetVolume \/ StepsSetChannel \/ Return
    \/ Bus("ctl", {"ok"})
    \/ PollRDS({"ok", "nak"})
    \/ DeviceTune
    \/ DeviceRDS

Spec == Init /\ [][Next]_vars

\* the control path and the RDS poll loop on a bus that does not fail
NextRace ==
    \/ calls < MaxPollCalls /\ CallVolume({16})
    \/ calls < MaxPollCalls /\ CallTune({1011}, {})
    \/ StepsConfigure \/ SetVolume \/ StepsSetChannel \/ Return
    \/ Bus("ctl", {"ok"})
    \/ PollRDS({"ok"})
    \/ DeviceTune
    \/ DeviceRDS

RaceSpec == Init /\ [][NextRace]_vars

\* SetChannel and Seek alone on a bus that does not fail, with a control
\* path that keeps running and a chip that eventually raises the completion
\* flag of a started operation and drops it once the start bit is cleared
NextLive ==
    \/ CallTune({875, 1011}, Directions)
    \/ StepsConfigure \/ StepsSetChannel \/ StepsSeek \/ Return
    \/ Bus("ctl", {"ok"})
    \/ DeviceTune

ControlRuns == StepsConfigure \/ StepsSetChannel \/ StepsSeek \/ Return \/ Bus("ctl", {"ok"})

LiveSpec == Init /\ [][NextLive]_vars /\ WF_vars(ControlRuns) /\ WF_vars(DeviceTune)

\* SetVolume alone, over the range of its argument, on a bus that can fail
MaxVolume == 17

NextVol ==
    \/ CallVolume((0 .. MaxVolume) \cup {255, 65535})
    \/ StepsConfigure \/ SetVolume \/ Return
    \/ Bus("ctl", TxOutcomes)

VolSpec == Init /\ [][NextVol]_vars

\* the largest channel code of the 9-bit field (0x1FF, line 508)
GridMax == 511

\* SetChannel arguments (units of 100 kHz) on the 200 kHz grid of band 0
Grid == {875 + 2 * k : k \in 0 .. GridMax}

\* SetChannel arguments off the grid: below the band, between grid points,
\* above the last channel, and where channel*10 wraps in 16 bits
OffGrid == {0, 874, 876, 1899, 2000, 6553, 6554, 65535}

\* one SetChannel after Configure, over its argument, on a working bus
NextChan ==
    \/ calls = 0 /\ CallTune(Grid \cup OffGrid, {})
    \/ StepsConfigure \/ StepsSetChannel \/ Return
    \/ Bus("ctl", {"ok"})
    \/ DeviceTune

ChanSpec == Init /\ [][NextChan]_vars

(***************************************************************************)
(* Properties.                                                             *)
(***************************************************************************)
WriteEvents == {"wr", "wrfail"}

FailEvents == {"rdfail", "pollfail", "wrfail"}

Occurrences(log, events) == {i \in DOMAIN log : log[i] \in events}

Mutating == {"SetVolume", "SetChannel", "Seek", "DisableSoftMute", "DisableMute", "EnableMute"}

Returning(op) == pc["ctl"].op = op /\ pc["ctl"].at \in ReturnSites

\* C1: SetChannel and Seek, alone on a working bus with a chip that raises
\* and then drops the completion flag, always return, and at the return the
\* completion flag and the start bit (TUNE, SEEK) are clear in the bank and
\* in the chip.
C1_TuneSeekEnd ==
    /\ [](Returning("SetChannel") =>
            /\ ~stcSet(registers) /\ ~DevSTC(dev)
            /\ Bit(registers[CHANNEL], TUNE) = 0 /\ Bit(dev[CHANNEL], TUNE) = 0)
    /\ [](Returning("Seek") =>
            /\ ~stcSet(registers) /\ ~DevSTC(dev)
            /\ Bit(registers[POWERCFG], SEEK) = 0 /\ Bit(dev[POWERCFG], SEEK) = 0)
    /\ (pc["ctl"].op \in {"SetChannel", "Seek"} ~> pc["ctl"].op = "idle")

C1_Witness ==
    /\ Returning("Seek")
    /\ calls = MaxCalls
    /\ opLog = <<"rd", "wr", "poll", "set", "reset", "poll", "clear">>

\* C2: a Seek that has come to its end has issued exactly two write-range
\* transactions, the second one after the completion flag was seen set and
\* the decoder reset, before the final poll.
C2_SeekWritesTwice ==
    Returning("Seek") =>
        /\ Cardinality(Occurrences(opLog, WriteEvents)) = 2
        /\ \E i \in Occurrences(opLog, WriteEvents) : i > 1 /\ opLog[i - 1] = "reset"

\* C3: SetChannel and Seek install a fresh decoder context at most once, right
\* after the completion flag was seen set and before any read of the final
\* poll, and exactly once when they complete.
C3_ResetOnce ==
    LET resets == Occurrences(opLog, {"reset"})
    IN  /\ Cardinality(resets) <= 1
        /\ \A i \in resets : i > 1 /\ opLog[i - 1] = "set"
        /\ \A i \in Occurrences(opLog, {"clear"}) : \E j \in resets : j < i
        /\ (Returning("SetChannel") \/ Returning("Seek")) => Cardinality(resets) = 1
        /\ pc["ctl"].at \in {263, 306} => rdsinfo = NewRDSInfo

C3_Witness ==
    /\ Returning("SetChannel")
    /\ "pollfail" \in {opLog[i] : i \in DOMAIN opLog}
    /\ Cardinality(Occurrences(opLog, {"reset"})) = 1

\* C4: a mutating operation in which a bus transaction failed hands an error
\* to its caller, and a failed read-all or write-range is not issued again.
C4_ErrorReported ==
    \A op \in Mutating :
        Returning(op) =>
            /\ Occurrences(opLog, FailEvents) # {} => Outcome(op) = "error"
            /\ \A i \in DOMAIN opLog :
                   i > 1 =>
                       /\ ~(opLog[i - 1] = "rdfail" /\ opLog[i] \in {"rd", "rdfail"})
                       /\ ~(opLog[i - 1] = "wrfail" /\ opLog[i] \in WriteEvents)

\* C5: a read-all whose bus transaction failed changes no word of the bank.
C5_FailedReadKeepsBank ==
    [][\A t \in Flows :
         (/\ pc[t].at \in ReadSites
          /\ (pc'[t] # pc[t] \/ in'[t] # in[t])
          /\ err'[t])
         => registers' = registers]_vars

C5_Witness ==
    /\ err["ctl"]
    /\ lastTx.by = "ctl"
    /\ lastTx.call = "readRegisters"
    /\ pc["ctl"].at = 226
    /\ registers[0] = 4674

\* C6: a mutating operation whose initial read-all failed issues no
\* write-range.
C6_NoWriteAfterFailedRead ==
    (pc["ctl"].op \in Mutating /\ Len(opLog) >= 1 /\ opLog[1] = "rdfail")
        => Occurrences(opLog, WriteEvents) = {}

\* C7: no flow starts a bus transaction while the other flow is between the
\* start of its transaction and the end of its update of the bank.
C7_BusExclusive ==
    [][\A t \in Flows :
         (/\ in[t] = "none"
          /\ pc[t].at \in ReadSites \cup UpdateSites
          /\ (pc'[t] # pc[t] \/ in'[t] # in[t]))
         => \A u \in Flows \ {t} : in[u] = "none"]_vars

\* C8: a read-all stores the k-th big-endian word of the 32 bytes read at
\* bank index (0x0A + k) mod 16, for k = 0..15.
C8_ReadMapping ==
    [][\A t \in Flows :
         (in[t] = "store" /\ in'[t] = "none")
         => \A k \in 0 .. 15 :
                registers'[(10 + k) % 16] = rx[t][2 * k + 1] * 256 + rx[t][2 * k + 2]]_vars

C8_Witness ==
    /\ lastTx.by = "ctl"
    /\ lastTx.call = "readRegisters"
    /\ in["ctl"] = "none"
    /\ ~err["ctl"]
    /\ registers[STATUSRSSI] = 291 + Shl(STC)
    /\ registers[9] = 2314
    /\ registers[UNUSED7] = 33024

\* C9: a write-range transmits the 12 bytes of registers 0x02..0x07 in
\* ascending order, high byte first, and leaves the bank as it was.
C9_WritePayload ==
    [][\A t \in Flows :
         (/\ in[t] = "none"
          /\ pc[t].at \in UpdateSites
          /\ pc'[t] # pc[t])
         => /\ lastTx'.call = "updateRegisters"
            /\ Len(lastTx'.w) = 12
            /\ \A r \in 2 .. 7 :
                   /\ lastTx'.w[2 * (r - 2) + 1] = registers[r] \div 256
                   /\ lastTx'.w[2 * (r - 2) + 2] = registers[r] % 256
            /\ registers' = registers]_vars

C9_Witness ==
    /\ lastTx.call = "updateRegisters"
    /\ pc["ctl"].at = 252
    /\ lastTx.w[3] >= 128
    /\ lastTx.w[4] = 68

\* C10: the volume field of the payload SetVolume(v) writes is min(v, 15).
C10_VolumeClamped ==
    (pc["ctl"].op = "SetVolume" /\ pc["ctl"].at = 235)
        => /\ lastTx.call = "updateRegisters"
           /\ lastTx.w[8] % 16 = (IF pc["ctl"].arg < 15 THEN pc["ctl"].arg ELSE 15)

C10_Witness ==
    /\ pc["ctl"].op = "SetVolume"
    /\ pc["ctl"].at = 235
    /\ pc["ctl"].arg = 17
    /\ opLog = <<"rd", "wr">>
    /\ lastTx.w[8] = 31

\* C11: for every frequency f = 8750 + 20*k (10 kHz units, k in 0..511) of
\* the 200 kHz grid, the channel code SetChannel puts in the CHANNEL word is
\* k, and the frequency printed for that code is f again.
C11_GridRoundTrip ==
    \A k \in 0 .. GridMax :
        (/\ pc["ctl"].op = "SetChannel"
         /\ pc["ctl"].at = 248
         /\ pc["ctl"].arg * 10 = 8750 + 20 * k)
        => LET code == channelCode(registers[CHANNEL])
               f == 8750 + 20 * k
           IN  /\ code = k
               /\ printChannelNumber(code) = <<f \div 100, f % 100, "MHz">>

C11_Witness ==
    /\ pc["ctl"].op = "SetChannel"
    /\ pc["ctl"].at = 248
    /\ pc["ctl"].arg = 875 + 2 * GridMax
    /\ registers[CHANNEL] % 512 = GridMax
    /\ printChannelNumber(GridMax) = <<189, 70, "MHz">>

\* C12 as stated: SetChannel(1011), 101.1 MHz, produces channel code 172 and
\* code 172 prints as 101.10 MHz.
C12_Code172 ==
    (pc["ctl"].op = "SetChannel" /\ pc["ctl"].at = 248 /\ pc["ctl"].arg = 1011)
        => /\ channelCode(registers[CHANNEL]) = 172
           /\ printChannelNumber(172) = <<101, 10, "MHz">>

\* C12, amended: SetChannel(1011), 101.1 MHz, produces channel code 68, the
\* code sent to the chip, and code 68 prints as 101.10 MHz.
C12_Code68 ==
    /\ (pc["ctl"].op = "SetChannel" /\ pc["ctl"].at = 248 /\ pc["ctl"].arg = 1011)
           => /\ channelCode(registers[CHANNEL]) = 68
              /\ printChannelNumber(channelCode(registers[CHANNEL])) = <<101, 10, "MHz">>
    /\ (/\ pc["ctl"].op = "SetChannel" /\ pc["ctl"].at = 252 /\ pc["ctl"].arg = 1011
         /\ lastTx.call = "updateRegisters")
           => (lastTx.w[3] % 2) * 256 + lastTx.w[4] = 68

C12_Witness ==
    /\ pc["ctl"].op = "SetChannel"
    /\ pc["ctl"].at = 252
    /\ pc["ctl"].arg = 1011
    /\ lastTx.call = "updateRegisters"
    /\ lastTx.w[4] = 68
    /\ dev[CHANNEL] % 512 = 68

\* C13: in every tick of the poll loop, when the tick's read-all refreshed
\* the bank and shows RDSR set, the four RDS words it read are forwarded to
\* the decoder exactly once; when the bit is clear, or the tick's read-all
\* failed and refreshed nothing, nothing is forwarded in that tick.
C13_ForwardPerTick ==
    [][(At("rds", "PollRDS", 670) /\ pc'["rds"].at = 668)
       => IF ~err["rds"] /\ rdsReady(registers)
          THEN rdsinfo' = Update(rdsinfo, <<registers[RDSA], registers[RDSB],
                                            registers[RDSC], registers[RDSD]>>)
          ELSE rdsinfo' = rdsinfo]_vars

\* C14: while SetChannel or Seek, after its first write-range, has not seen
\* the completion flag set (the chip does not raise it, or the read-alls
\* fail), it is still in its first polling loop: it has not returned, has
\* issued nothing but read-alls since that write-range, has issued no second
\* write-range and has not reset the decoder.
C14_PollsUntilSet ==
    LET writes == Occurrences(opLog, WriteEvents)
    IN  (/\ pc["ctl"].op \in {"SetChannel", "Seek"}
         /\ writes # {}
         /\ Occurrences(opLog, {"set"}) = {})
        => /\ pc["ctl"].at \in {252, 253, 295, 296}
           /\ ~Returning(pc["ctl"].op)
           /\ Cardinality(writes) = 1
           /\ Occurrences(opLog, {"reset"}) = {}
           /\ \A i \in DOMAIN opLog :
                  (\E j \in writes : j < i) => opLog[i] \in PollEvents

C14_Witness ==
    /\ pc["ctl"].op = "SetChannel"
    /\ pc["ctl"].at = 253
    /\ opLog = <<"rd", "wrfail", "pollfail", "poll">>
    /\ ~Busy(dev)
    /\ ~DevSTC(dev)

\* C15: over any sequence of SetChannel and Seek calls made one after the
\* other, on a working bus, from a chip with TUNE and SEEK clear that sets
\* and clears the completion flag for each operation, the chip never holds
\* TUNE (CHANNEL bit 15) and SEEK (POWERCFG bit 8) set together, and no
\* write-range payload carries both bits set.
C15_TuneSeekExclusive ==
    /\ ~(Bit(dev[CHANNEL], TUNE) = 1 /\ Bit(dev[POWERCFG], SEEK) = 1)
    /\ lastTx.call = "updateRegisters"
           => ~(lastTx.w[3] >= 128 /\ lastTx.w[1] % 2 = 1)

C15_Witness ==
    /\ calls = MaxCalls
    /\ pc["ctl"].op = "Seek"
    /\ pc["ctl"].at = 295
    /\ lastTx.call = "updateRegisters"
    /\ lastTx.w[1] % 2 = 1
    /\ Bit(dev[POWERCFG], SEEK) = 1
    /\ channelCode(dev[CHANNEL]) = 68

\* C16: Seek does not branch on the band-limit bit (STATUSRSSI bit 13): the
\* line that follows each loop test is decided by the completion flag
\* alone, the payload of its write-range by the direction and the chip's
\* registers 0x02..0x07 alone, and every Seek that returns, band limit reported or not, has
\* issued the same transactions in the same order, reset the decoder once
\* and completed the clear-flag handshake.
C16_SeekIgnoresSFBL ==
    /\ [][(At("ctl", "Seek", 296) /\ pc'["ctl"] # pc["ctl"])
           => pc'["ctl"].at = (IF Bit(registers[STATUSRSSI], STC) = 1 THEN 303 ELSE 295)]_vars
    /\ [][(At("ctl", "Seek", 311) /\ pc'["ctl"] # pc["ctl"])
           => pc'["ctl"].at = (IF Bit(registers[STATUSRSSI], STC) = 1 THEN 310 ELSE 316)]_vars
    /\ [][(At("ctl", "Seek", 291) /\ pc'["ctl"] # pc["ctl"])
           => lastTx'.w = updatePayload(setSeek(dev, pc["ctl"].arg))]_vars
    /\ [](Returning("Seek")
           => opLog = <<"rd", "wr", "poll", "set", "reset", "poll", "clear">>)

C16_Witness ==
    /\ pc["ctl"].op = "Seek"
    /\ pc["ctl"].at = 311
    /\ in["ctl"] = "none"
    /\ Bit(registers[STATUSRSSI], SFBL) = 1
    /\ Bit(registers[STATUSRSSI], STC) = 1
    /\ opLog = <<"rd", "wr", "poll", "set", "reset", "poll">>

\* C17: with the poll loop running and no bus failure, the write-range of
\* SetVolume(v) carries min(v, 15) in the volume field and the first
\* write-range of SetChannel carries TUNE set, whatever the interleaving.
C17_NoLostUpdate ==
    [][(/\ in["ctl"] = "none"
        /\ pc["ctl"].at \in {234, 248}
        /\ pc'["ctl"] # pc["ctl"])
       => IF pc["ctl"].at = 234
          THEN lastTx'.w[8] % 16 = (IF pc["ctl"].arg < 15 THEN pc["ctl"].arg ELSE 15)
          ELSE lastTx'.w[3] >= 128]_vars

\* C18: a read-all never changes the chip's register 0x02: the two bytes it
\* transmits are the value the chip holds for that register at that moment,
\* in every operation, the polling reads of SetChannel and Seek included.
C18_ReadKeepsReg02 ==
    [][\A t \in Flows :
         (/\ in[t] = "none"
          /\ pc[t].at \in ReadSites
          /\ (pc'[t] # pc[t] \/ in'[t] # in[t]))
         => /\ lastTx'.w = BigEndianWrite(dev[POWERCFG])
            /\ dev'[POWERCFG] = dev[POWERCFG]]_vars

\* C19: for every 16-bit argument of SetChannel, the CHANNEL word of its
\* first write-range has TUNE set and, compared with the CHANNEL word just
\* read from the chip, the same bits 9..14: the word is (read AND 0xFE00)
\* OR code OR TUNE with code in 0..511.
C19_ChannelBits ==
    [][(At("ctl", "SetChannel", 248) /\ pc'["ctl"] # pc["ctl"])
       => LET read == dev[CHANNEL]
              sent == lastTx'.w[3] * 256 + lastTx'.w[4]
          IN  /\ Bit(sent, TUNE) = 1
              /\ (sent \div 512) % 64 = (read \div 512) % 64
              /\ sent = Or16(Or16(And16(read, 65024), sent % 512), Shl(TUNE))]_vars

\* C20: SetVolume, DisableSoftMute, DisableMute and EnableMute each issue
\* exactly one read-all and then exactly one write-range, and the payload
\* of that write-range differs from the registers 0x02..0x07 the read-all
\* returned only in the operation's own field: SYSCONFIG2 bits 0..3,
\* POWERCFG bit 15 set, POWERCFG bit 14 set, POWERCFG bit 14 cleared.
C20_OwnFieldOnly ==
    /\ [](\A op \in {"SetVolume", "DisableSoftMute", "DisableMute", "EnableMute"} :
            Returning(op) => /\ Len(opLog) = 2
                             /\ opLog[1] \in {"rd", "rdfail"}
                             /\ opLog[2] \in WriteEvents)
    /\ [][(/\ pc["ctl"].op \in {"SetVolume", "DisableSoftMute", "DisableMute", "EnableMute"}
            /\ in["ctl"] = "none"
            /\ pc["ctl"].at \in UpdateSites
            /\ pc'["ctl"] # pc["ctl"]
            /\ opLog = <<"rd">>)
           => LET sent(r) == lastTx'.w[2 * (r - 2) + 1] * 256 + lastTx'.w[2 * (r - 2) + 2]
                  without(w, b) == w - Bit(w, b) * Shl(b)
                  field == IF pc["ctl"].op = "SetVolume" THEN SYSCONFIG2 ELSE POWERCFG
              IN  /\ CASE pc["ctl"].op = "SetVolume" ->
                               sent(SYSCONFIG2) \div 16 = dev[SYSCONFIG2] \div 16
                        [] pc["ctl"].op = "DisableSoftMute" ->
                               /\ Bit(sent(POWERCFG), SMUTE) = 1
                               /\ without(sent(POWERCFG), SMUTE) = without(dev[POWERCFG], SMUTE)
                        [] pc["ctl"].op = "DisableMute" ->
                               /\ Bit(sent(POWERCFG), DMUTE) = 1
                               /\ without(sent(POWERCFG), DMUTE) = without(dev[POWERCFG], DMUTE)
                        [] OTHER ->
                               /\ Bit(sent(POWERCFG), DMUTE) = 0
                               /\ sent(POWERCFG) = without(dev[POWERCFG], DMUTE)
                  /\ \A r \in (2 .. 7) \ {field} : sent(r) = dev[r]]_vars

C20_Witness ==
    /\ Returning("DisableMute")
    /\ calls = MaxCalls
    /\ opLog = <<"rd", "wr">>
    /\ Bit(dev[POWERCFG], DMUTE) = 1
    /\ Bit(dev[POWERCFG], SMUTE) = 1
    /\ dev[SYSCONFIG2] = 3098

====
